---- MODULE Spec2Model ----
(***************************************************************************)
(* The Alexa -> Make webhook bridge: six revisions of one HTTP handler.    *)
(*   "alexa"     src/api/alexa.js                                          *)
(*   "p000"      src/unnamed/part_000                                      *)
(*   "p001"      src/unnamed/part_001                                      *)
(*   "p003"      src/unnamed/part_003                                      *)
(*   "p004"      src/unnamed/part_004                                      *)
(*   "api_alexa" src/api_alexa.js                                          *)
(* One behaviour is one inbound request handled by one revision under one  *)
(* configuration.  An action is the code a handler runs between two        *)
(* awaits.                                                                 *)
(*                                                                         *)
(* JavaScript values are tagged records; a string is a sequence of tokens  *)
(* (" " is the whitespace token, "<speak>" and "</speak>" are the tags),   *)
(* so that trim(), startsWith() and template strings are computed.         *)
(***************************************************************************)
EXTENDS Integers, Sequences, FiniteSets

\* ---------- bounds ----------
\* longest slot value / downstream text, in tokens
MaxTextLen == 2
\* most chunks the request stream delivers
MaxChunks == 2

\* ---------- JavaScript values ----------
Undef == [t |-> "undefined"]
Null == [t |-> "null"]
Str(s) == [t |-> "string", s |-> s]
Num(n) == [t |-> "number", n |-> n]
Bool(b) == [t |-> "boolean", b |-> b]
Obj(f) == [t |-> "object", f |-> f]

\* ToBoolean: the test of `!x`, `x || y`, `x && y`, `x ? a : b`
Truthy(v) ==
  CASE v.t = "undefined" -> FALSE
    [] v.t = "null" -> FALSE
    [] v.t = "string" -> v.s # <<>>
    [] v.t = "number" -> v.n # 0
    [] v.t = "boolean" -> v.b
    [] v.t = "object" -> TRUE

\* a || b
Or(a, b) == IF Truthy(a) THEN a ELSE b

\* a?.k ; also a.k when a is neither undefined nor null
Get(v, k) == IF v.t = "object" /\ k \in DOMAIN v.f THEN v.f[k] ELSE Undef

\* a.k throws a TypeError when a is undefined or null
Nullish(v) == v.t \in {"undefined", "null"}

Digits == <<"1", "2", "3", "4", "5", "6", "7", "8", "9">>

\* String(v)
String(v) ==
  CASE v.t = "string" -> v.s
    [] v.t = "undefined" -> <<"undefined">>
    [] v.t = "null" -> <<"null">>
    [] v.t = "number" -> IF v.n \in 1..9 THEN <<Digits[v.n]>> ELSE <<"0">>
    [] v.t = "boolean" -> IF v.b THEN <<"true">> ELSE <<"false">>
    [] v.t = "object" -> <<"[object Object]">>

RECURSIVE TrimStart(_)
TrimStart(s) == IF s # <<>> /\ Head(s) = " " THEN TrimStart(Tail(s)) ELSE s

RECURSIVE TrimEnd(_)
TrimEnd(s) ==
  IF s # <<>> /\ s[Len(s)] = " " THEN TrimEnd(SubSeq(s, 1, Len(s) - 1)) ELSE s

\* String.prototype.trim
Trim(s) == TrimEnd(TrimStart(s))

\* s.startsWith("<speak>")
StartsWithSpeak(s) == s # <<>> /\ Head(s) = "<speak>"

\* `<speak>${s}</speak>`
Speak(s) == <<"<speak>">> \o s \o <<"</speak>">>

LowerToken(c) ==
  CASE c = "True" -> "true"
    [] c = "TRUE" -> "true"
    [] c = "False" -> "false"
    [] c = "FALSE" -> "false"
    [] c = "Capital de Pernambuco" -> "capital de pernambuco"
    [] OTHER -> c

\* String.prototype.toLowerCase
ToLowerCase(s) == [i \in 1..Len(s) |-> LowerToken(s[i])]

\* ---------- raw text and JSON ----------
\* A text on the wire: the serialisation of a JSON value (compact, as
\* JSON.stringify writes it, or with other whitespace), or text that is not
\* JSON at all.
JsonText(v, fmt) == [k |-> "json", fmt |-> fmt, v |-> v, s |-> <<>>]
PlainText(s) == [k |-> "plain", fmt |-> "none", v |-> Undef, s |-> s]

\* JSON.parse throws a SyntaxError
ParseThrows(raw) == raw.k # "json"
\* JSON.parse
JSONparse(raw) == raw.v
\* JSON.stringify
JSONstringify(v) == JsonText(v, "compact")

\* ---------- inputs ----------
\* the tokens a slot value or a downstream text is made of
TextTokens == {" ", "hi"}
Texts == UNION {[1..n -> TextTokens] : n \in 0..MaxTextLen}

\* bytes in one chunk of the request stream
ChunkBytes == 600000
\* a request stream: n chunks, then "end" or "error"
Streams == [chunks : 1..MaxChunks, fin : {"end", "error"}]

SlotNames == {"query", "SearchQuery", "pergunta", "texto"}
Slot(t) == Obj([value |-> Str(t)])
SlotSets ==
  {Undef, Obj([query |-> Obj([name |-> Str(<<"query">>)])]),
   Obj([query |-> Slot(<<>>), texto |-> Slot(<<"hi">>)]),
   Obj([query |-> Slot(<<"hi">>), SearchQuery |-> Slot(<<" ">>)]),
   Obj([query |-> Slot(<<"Capital de Pernambuco">>)])}
    \cup {Obj([k \in {n} |-> Slot(t)]) : n \in SlotNames, t \in Texts}

Session == Obj([sessionId |-> Str(<<"s1">>)])
IntentRequest(name, slots) ==
  Obj([request |-> Obj([type |-> Str(<<"IntentRequest">>),
                        intent |-> Obj([name |-> Str(<<name>>), slots |-> slots])]),
       session |-> Session])
OtherRequest(type) == Obj([request |-> Obj([type |-> Str(<<type>>)]), session |-> Session])

\* the JSON values an inbound body may carry
InboundValues ==
  {Null, Obj(<<>>), OtherRequest("LaunchRequest"), OtherRequest("SessionEndedRequest"),
   OtherRequest("CanFulfillIntentRequest"),
   Obj([request |-> Obj([type |-> Str(<<"IntentRequest">>)])]),
   IntentRequest("AMAZON.HelpIntent", Undef)}
    \cup {IntentRequest("AskPerplexityIntent", sl) : sl \in SlotSets}

InboundRaws ==
  {PlainText(<<"{">>)} \cup {JsonText(v, fmt) : v \in InboundValues, fmt \in {"compact", "spaced"}}

AnswerFields == {"ssml", "speech", "answer", "message", "text"}
EnvelopeResponse ==
  Obj([shouldEndSession |-> Bool(FALSE),
       outputSpeech |-> Obj([type |-> Str(<<"PlainText">>), text |-> Str(<<"hi">>)])])

\* the JSON values a downstream body may carry
DownValues ==
  {Null, Num(5), Str(<<"hi">>), Obj(<<>>),
   Obj([version |-> Str(<<"1.0">>), response |-> Obj(<<>>)]),
   Obj([version |-> Str(<<"1.0">>), response |-> EnvelopeResponse]),
   Obj([version |-> Str(<<"1.0">>), response |-> Null]),
   Obj([response |-> EnvelopeResponse]),
   Obj([ssml |-> Str(Speak(<<"hi">>))]),
   Obj([text |-> Num(5)]),
   Obj([ssml |-> Str(<<>>), text |-> Str(<<"hi">>)]),
   Obj([speech |-> Str(<<"hi">>), text |-> Str(<<" ">>)])}
    \cup {Obj([k \in {f} |-> Str(t)]) : f \in AnswerFields, t \in Texts}

DownRaws == {PlainText(t) : t \in Texts} \cup {JsonText(v, "compact") : v \in DownValues}

\* HTTP statuses the downstream answers with
DownStatuses == {200, 500}
\* Response.ok
Ok(status) == status \in 200..299

\* process.env.ALEXA_VERIFY
EnvVerifyValues == {Undef, Str(<<"true">>), Str(<<"False">>), Str(<<"1">>)}
\* process.env.MAKE_WEBHOOK_URL
EnvUrlValues == {Undef, Str(<<"https://hook.make.example/x">>)}
\* a header of the request: absent or present
HeaderValues == {Undef, Str(<<"present">>)}

Revisions == {"alexa", "p000", "p001", "p003", "p004", "api_alexa"}

NoRaw == PlainText(<<"(none)">>)

VARIABLES
  rev,          \* the revision that handles the request
  envVerify,    \* process.env.ALEXA_VERIFY
  envUrl,       \* process.env.MAKE_WEBHOOK_URL
  method,       \* req.method
  headers,      \* req.headers: signature, signaturecertchainurl
  pc,           \* where the handler is; "hung": suspended at an await that never settles
  received,     \* the body the sender put on the wire, once the stream delivered it
  reqBody,      \* req.body, when the hosting runtime parsed the body already
  rawBody,      \* local rawBody / rawBodyStr, from the read until the parse
  verification, \* how the verification step ended
  verifierSaw,  \* what the verifier was handed: "nothing", "received", "other"
  parseState,   \* JSON.parse of the inbound body: "none", "ok", "failed"
  type,         \* local type
  intent,       \* local intent
  query,        \* local query
  fetchOutcome, \* the downstream call: "none", "network error", "abort", "response",
                \* "body error", "body stalled"
  fetchStatus,  \* status of the downstream response, 0 before it arrives
  fetched,      \* body of the downstream response
  responses,    \* what was written to res
  calls,        \* fetch() calls issued
  escaped       \* the handler's promise rejected

vars ==
  <<rev, envVerify, envUrl, method, headers, pc, received, reqBody, rawBody, verification,
    verifierSaw, parseState, type, intent, query, fetchOutcome, fetchStatus, fetched,
    responses, calls,
    escaped>>

Init ==
  /\ rev \in Revisions
  /\ envVerify \in EnvVerifyValues
  /\ envUrl \in EnvUrlValues
  /\ method \in {"POST", "GET"}
  /\ headers \in [signature : HeaderValues, signaturecertchainurl : HeaderValues]
  /\ pc = "start"
  /\ received = NoRaw
  /\ reqBody = Undef
  /\ rawBody = NoRaw
  /\ verification = "pending"
  /\ verifierSaw = "nothing"
  /\ parseState = "none"
  /\ type = Undef
  /\ intent = Undef
  /\ query = Undef
  /\ fetchOutcome = "none"
  /\ fetchStatus = 0
  /\ fetched = NoRaw
  /\ responses = <<>>
  /\ calls = <<>>
  /\ escaped = FALSE

\* res.status(status).json(body) / res.status(status).send(text): the handler returns
Respond(status, json, body) ==
  /\ responses' = Append(responses, [status |-> status, json |-> json, body |-> body])
  /\ pc' = "done"

\* fetch(url, {method: "POST", body: JSON.stringify(payload)})
Fetch(url, payload) ==
  /\ calls' = Append(calls, [url |-> url, method |-> "POST", body |-> JSONstringify(payload)])
  /\ pc' = "fetch"

config == <<rev, envVerify, envUrl, method, headers>>
locals == <<type, intent, query>>
downstream == <<fetchOutcome, fetchStatus, fetched>>

\* the stream handed n chunks to a reader that rejects once more than `limit` bytes
\* came (limit < 0: the reader has no limit); TRUE when the reader's promise rejects
RECURSIVE OverLimit(_, _, _)
OverLimit(n, size, limit) ==
  IF n = 0 THEN FALSE
  ELSE (limit >= 0 /\ size + ChunkBytes > limit) \/ OverLimit(n - 1, size + ChunkBytes, limit)

\* the alexa-verifier library: it rejects when the certificate URL or the signature is
\* missing, and otherwise decides by the certificate chain, the timestamp and the signature
VerifierOutcomes(certUrl, signature) ==
  IF Truthy(certUrl) /\ Truthy(signature) THEN {"accepted", "rejected"} ELSE {"rejected"}

\* which bytes a verifier call was handed
Saw(body) == IF body = received THEN "received" ELSE "other"

\* ================= src/api/alexa.js =================
A_MAKE_WEBHOOK_URL == Or(envUrl, Str(<<>>))
A_ALEXA_VERIFY == ToLowerCase(String(Or(envVerify, Str(<<"true">>)))) = <<"true">>

alexaPlain(text, shouldEnd) ==
  Obj([version |-> Str(<<"1.0">>),
       response |-> Obj([shouldEndSession |-> Bool(shouldEnd),
                         outputSpeech |-> Obj([type |-> Str(<<"PlainText">>),
                                               text |-> Str(String(text))])])])

alexaSSML(ssml, shouldEnd) ==
  LET clean == Trim(String(ssml))
      wrapped == IF StartsWithSpeak(clean) THEN clean ELSE Speak(clean)
  IN Obj([version |-> Str(<<"1.0">>),
          response |-> Obj([shouldEndSession |-> Bool(shouldEnd),
                            outputSpeech |-> Obj([type |-> Str(<<"SSML">>),
                                                  ssml |-> Str(wrapped)])])])

alexaError(text) == alexaSSML(Str(Speak(text)), TRUE)
A_DefaultError == <<"Desculpe, houve um erro ao processar.">>

buildAskPrompt == alexaSSML(Str(Speak(<<"Oi! O que você quer saber?">>)), FALSE)

A_limit == 1024 * 1024

\* getRawBody's promise rejects: too many bytes, or the stream's error event
A_getRawBodyRejects(st) == OverLimit(st.chunks, 0, A_limit) \/ st.fin = "error"

\* the outer catch that only logs, and writes nothing
A_fatal_logonly == pc' = "done" /\ UNCHANGED responses

\* the outer catch (lines 229-232)
A_fatal == Respond(500, TRUE, alexaError(A_DefaultError))

\* the verifier's callback resolving whatever err holds
A_verified_ignoreerr(out) == pc' = "route" /\ UNCHANGED responses

\* the end of the await of verifyAlexaRequest, and the catch around it (lines 151-157)
A_verified(out) ==
  IF out = "accepted"
    THEN pc' = "route" /\ UNCHANGED responses
    ELSE Respond(400, TRUE, alexaPlain(Str(<<"Não foi possível validar a requisição.">>), TRUE))

\* the handler without its method check: every request goes on to getRawBody
A_handler_anymethod ==
  /\ rev = "alexa" /\ pc = "start"
  /\ pc' = "body"
  /\ UNCHANGED <<config, locals, received, reqBody, rawBody, verification, verifierSaw,
                 parseState, downstream, responses, calls, escaped>>

\* handler, lines 131-137: the method check, up to the await of getRawBody
A_handler ==
  /\ rev = "alexa" /\ pc = "start"
  /\ IF method # "POST"
       THEN Respond(405, FALSE, Str(<<"Method Not Allowed">>))
       ELSE pc' = "body" /\ UNCHANGED responses
  /\ UNCHANGED <<config, locals, received, reqBody, rawBody, verification, verifierSaw,
                 parseState, downstream, calls, escaped>>

\* getRawBody settles; a rejection lands in the outer catch (lines 229-232)
A_getRawBody ==
  /\ rev = "alexa" /\ pc = "body"
  /\ \E st \in Streams, raw \in InboundRaws :
       IF A_getRawBodyRejects(st)
         THEN /\ A_fatal
              /\ UNCHANGED <<received, rawBody>>
         ELSE /\ received' = raw
              /\ rawBody' = raw
              /\ pc' = "verify"
              /\ UNCHANGED responses
  /\ UNCHANGED <<config, locals, reqBody, verification, verifierSaw, parseState,
                 downstream, calls, escaped>>

\* verifyAlexaRequest and the handler's catch around it (lines 151-157)
A_verifyAlexaRequest ==
  /\ rev = "alexa" /\ pc = "verify"
  /\ IF ~A_ALEXA_VERIFY
       THEN /\ verification' = "skipped"
            /\ pc' = "route"
            /\ UNCHANGED <<responses, verifierSaw>>
       ELSE IF ~Truthy(headers.signature) \/ ~Truthy(headers.signaturecertchainurl)
         THEN /\ verification' = "missing"
              /\ Respond(400, TRUE, alexaPlain(Str(<<"Não foi possível validar a requisição.">>), TRUE))
              /\ UNCHANGED verifierSaw
         ELSE \E out \in VerifierOutcomes(headers.signaturecertchainurl, headers.signature) :
                /\ verifierSaw' = Saw(rawBody)
                /\ verification' = out
                /\ A_verified(out)
  /\ UNCHANGED <<config, locals, received, reqBody, rawBody, parseState, downstream,
                 calls, escaped>>

\* the payload with the query as the slot gave it
A_payload_notrim(q, sessionId) ==
  Obj([query |-> Str(String(Or(q, Str(<<>>)))),
       sessionId |-> Str(String(Or(sessionId, Str(<<>>)))),
       source |-> Str(<<"alexa">>)])

\* the payload askMake posts (lines 89-93)
A_payload(q, sessionId) ==
  Obj([query |-> Str(Trim(String(Or(q, Str(<<>>))))),
       sessionId |-> Str(String(Or(sessionId, Str(<<>>)))),
       source |-> Str(<<"alexa">>)])

\* handler, lines 159-228: parse, routing, and askMake up to its fetch
A_route ==
  /\ rev = "alexa" /\ pc = "route"
  /\ received' = NoRaw
  /\ rawBody' = NoRaw
  /\ LET alexaReq == JSONparse(rawBody)
         request == Get(alexaReq, "request")
         t == Get(request, "type")
         i == Get(Get(request, "intent"), "name")
         slots == Get(Get(request, "intent"), "slots")
         q == Or(Get(Get(slots, "query"), "value"),
                 Or(Get(Get(slots, "SearchQuery"), "value"), Str(<<>>)))
         sessionId == Or(Get(Get(alexaReq, "session"), "sessionId"), Str(<<>>))
     IN IF ParseThrows(rawBody)
          THEN /\ parseState' = "failed"
               /\ Respond(400, TRUE, alexaError(<<"Requisição inválida.">>))
               /\ UNCHANGED <<locals, calls>>
          ELSE /\ parseState' = "ok"
               /\ IF Nullish(alexaReq)
                    THEN /\ A_fatal
                         /\ UNCHANGED <<locals, calls>>
                    ELSE /\ type' = t
                         /\ intent' = i
                         /\ query' = q
                         /\ IF t = Str(<<"LaunchRequest">>)
                              THEN Respond(200, TRUE, buildAskPrompt) /\ UNCHANGED calls
                              ELSE IF t = Str(<<"IntentRequest">>)
                                THEN IF i = Str(<<"AskPerplexityIntent">>)
                                  THEN IF ~Truthy(q)
                                    THEN /\ Respond(200, TRUE, alexaSSML(Str(Speak(<<"Qual é a sua pergunta?">>)), FALSE))
                                         /\ UNCHANGED calls
                                    ELSE IF ~Truthy(A_MAKE_WEBHOOK_URL)
                                      THEN /\ Respond(200, TRUE, alexaError(A_DefaultError))
                                           /\ UNCHANGED calls
                                      ELSE /\ Fetch(A_MAKE_WEBHOOK_URL, A_payload(q, sessionId))
                                           /\ UNCHANGED responses
                                  ELSE /\ Respond(200, TRUE, alexaPlain(Str(<<"Desculpe, não entendi. Pode repetir?">>), FALSE))
                                       /\ UNCHANGED calls
                                ELSE Respond(200, TRUE, alexaPlain(Str(<<"Ok.">>), TRUE)) /\ UNCHANGED calls
  /\ UNCHANGED <<config, reqBody, verification, verifierSaw, downstream, escaped>>

\* askMake, lines 99-109: fetch settles; the 8 s timer aborts a fetch that is still pending
A_askMake_fetch ==
  /\ rev = "alexa" /\ pc = "fetch"
  /\ \/ \E out \in {"network error", "abort"} :
          /\ fetchOutcome' = out
          /\ Respond(200, TRUE, alexaError(A_DefaultError))
          /\ UNCHANGED fetchStatus
     \/ \E st \in DownStatuses :
          /\ fetchOutcome' = "response"
          /\ fetchStatus' = st
          /\ pc' = "text"
          /\ UNCHANGED responses
  /\ UNCHANGED <<config, locals, received, reqBody, rawBody, verification, verifierSaw,
                 parseState, fetched, calls, escaped>>

\* what the handler writes for askMake's result r (lines 195-212)
A_answer(r) ==
  IF Truthy(r) /\ Truthy(Get(r, "version")) /\ Truthy(Get(r, "response"))
    THEN r
    ELSE IF Truthy(Get(r, "ssml"))
      THEN alexaSSML(Get(r, "ssml"), TRUE)
      ELSE IF Truthy(Get(r, "text"))
        THEN alexaPlain(Get(r, "text"), TRUE)
        ELSE alexaPlain(Str(<<"Desculpe, não encontrei a resposta.">>), TRUE)

\* askMake, lines 111-126: JSON.parse of the body, or {text: rawText}
A_data(raw) == IF ParseThrows(raw) THEN Obj([text |-> Str(raw.s)]) ELSE JSONparse(raw)

\* askMake, lines 111-126, and the handler's use of its result (lines 195-217)
A_askMake_text ==
  /\ rev = "alexa" /\ pc = "text"
  /\ IF ~Ok(fetchStatus)
       THEN /\ Respond(200, TRUE, alexaError(A_DefaultError))
            /\ UNCHANGED <<fetchOutcome, fetched>>
       ELSE \/ /\ fetchOutcome' = "body error"
               /\ Respond(200, TRUE, alexaError(A_DefaultError))
               /\ UNCHANGED fetched
            \/ \E raw \in DownRaws :
                 /\ fetched' = raw
                 /\ Respond(200, TRUE, A_answer(A_data(raw)))
                 /\ UNCHANGED fetchOutcome
  /\ UNCHANGED <<config, locals, received, reqBody, rawBody, verification, verifierSaw,
                 parseState, fetchStatus, calls, escaped>>

\* askMake, lines 111-119: the downstream sent its headers and then no body, or not
\* all of it. The timer was cleared when fetch resolved (lines 106-108), so nothing
\* aborts the read and resp.text() never settles: the handler stays at its await.
A_askMake_stalled ==
  /\ rev = "alexa" /\ pc = "text"
  /\ fetchOutcome' = "body stalled"
  /\ pc' = "hung"
  /\ UNCHANGED <<config, locals, received, reqBody, rawBody, verification, verifierSaw,
                 parseState, fetchStatus, fetched, responses, calls, escaped>>

\* ================= src/unnamed/part_000 =================
P0_MAKE_WEBHOOK_URL == Or(envUrl, Str(<<>>))
P0_ALEXA_VERIFY == ToLowerCase(String(Or(envVerify, Str(<<"true">>)))) = <<"true">>

responseSSML(ssml, end) ==
  Obj([version |-> Str(<<"1.0">>),
       response |-> Obj([shouldEndSession |-> Bool(end),
                         outputSpeech |-> Obj([type |-> Str(<<"SSML">>), ssml |-> Str(ssml)])])])

responseText(text, end) ==
  Obj([version |-> Str(<<"1.0">>),
       response |-> Obj([shouldEndSession |-> Bool(end),
                         outputSpeech |-> Obj([type |-> Str(<<"PlainText">>), text |-> Str(text)])])])

welcome ==
  Obj([version |-> Str(<<"1.0">>),
       response |-> Obj([shouldEndSession |-> Bool(FALSE),
                         outputSpeech |-> Obj([type |-> Str(<<"SSML">>),
                                               ssml |-> Str(Speak(<<"Oi! O que você quer saber?">>))]),
                         reprompt |-> Obj([outputSpeech |-> Obj([type |-> Str(<<"PlainText">>),
                                                                 text |-> Str(<<"Pode perguntar.">>)])])])])

\* the catch blocks' response (lines 156-161 and 166-171)
P0_error == responseSSML(Speak(<<"Desculpe, houve um erro ao processar.">>), TRUE)

\* getRawBody (no size limit): rejects on the stream's error event
P0_getRawBodyRejects(st) == OverLimit(st.chunks, 0, -1) \/ st.fin = "error"

\* handler, lines 73-80
P0_handler ==
  /\ rev = "p000" /\ pc = "start"
  /\ IF method # "POST"
       THEN Respond(405, FALSE, Str(<<"Method Not Allowed">>))
       ELSE pc' = "body" /\ UNCHANGED responses
  /\ UNCHANGED <<config, locals, received, reqBody, rawBody, verification, verifierSaw,
                 parseState, downstream, calls, escaped>>

\* getRawBody settles, then lines 83-94 up to the await of the verifier
P0_getRawBody ==
  /\ rev = "p000" /\ pc = "body"
  /\ \E st \in Streams, raw \in InboundRaws :
       IF P0_getRawBodyRejects(st)
         THEN /\ Respond(200, TRUE, P0_error)
              /\ UNCHANGED <<received, rawBody>>
         ELSE /\ received' = raw
              /\ rawBody' = raw
              /\ pc' = "verify"
              /\ UNCHANGED responses
  /\ UNCHANGED <<config, locals, reqBody, verification, verifierSaw, parseState,
                 downstream, calls, escaped>>

\* lines 83-100
P0_verify ==
  /\ rev = "p000" /\ pc = "verify"
  /\ IF ~P0_ALEXA_VERIFY
       THEN /\ verification' = "skipped"
            /\ pc' = "route"
            /\ UNCHANGED <<responses, verifierSaw>>
       ELSE IF ~Truthy(headers.signature) \/ ~Truthy(headers.signaturecertchainurl)
         THEN /\ verification' = "missing"
              /\ Respond(200, TRUE, responseSSML(Speak(<<"Não foi possível validar a requisição.">>), TRUE))
              /\ UNCHANGED verifierSaw
         ELSE \E out \in VerifierOutcomes(headers.signaturecertchainurl, headers.signature) :
                /\ verifierSaw' = Saw(rawBody)
                /\ verification' = out
                /\ IF out = "accepted"
                     THEN pc' = "route" /\ UNCHANGED responses
                     ELSE Respond(200, TRUE, P0_error)
  /\ UNCHANGED <<config, locals, received, reqBody, rawBody, parseState, downstream,
                 calls, escaped>>

\* query.toLowerCase().includes("capital de pernambuco")
IncludesCapital(s) == \E i \in 1..Len(s) : LowerToken(s[i]) = "capital de pernambuco"

\* lines 141-155: the local answers when no webhook is configured
P0_local(q) ==
  IF ~Truthy(q)
    THEN responseSSML(Speak(<<"Você pode me perguntar algo como: qual é a capital de Pernambuco?">>), FALSE)
    ELSE IF q.t # "string"
      THEN P0_error
      ELSE IF IncludesCapital(q.s)
        THEN responseText(<<"A capital de Pernambuco é Recife.">>, FALSE)
        ELSE responseSSML(Speak(<<"Desculpe, ainda não sei responder isso.">>), FALSE)

\* handler, lines 103-165, and sendToMake up to its fetch
P0_route ==
  /\ rev = "p000" /\ pc = "route"
  /\ received' = NoRaw
  /\ rawBody' = NoRaw
  /\ LET alexaReq == JSONparse(rawBody)
         request == Get(alexaReq, "request")
         t == Get(request, "type")
         i == Get(Get(request, "intent"), "name")
         slots == Get(Get(request, "intent"), "slots")
         q == Or(Get(Get(slots, "query"), "value"),
                 Or(Get(Get(slots, "SearchQuery"), "value"), Str(<<>>)))
     IN IF ParseThrows(rawBody)
          THEN /\ parseState' = "failed"
               /\ Respond(200, TRUE, P0_error)
               /\ UNCHANGED <<locals, calls>>
          ELSE /\ parseState' = "ok"
               /\ IF Nullish(alexaReq)
                    THEN /\ Respond(200, TRUE, P0_error)
                         /\ UNCHANGED <<locals, calls>>
                    ELSE /\ type' = t
                         /\ intent' = i
                         /\ query' = q
                         /\ IF t = Str(<<"LaunchRequest">>)
                              THEN Respond(200, TRUE, welcome) /\ UNCHANGED calls
                              ELSE IF t = Str(<<"IntentRequest">>) /\ i = Str(<<"AskPerplexityIntent">>)
                                THEN IF Truthy(P0_MAKE_WEBHOOK_URL)
                                  THEN /\ Fetch(P0_MAKE_WEBHOOK_URL, Obj([query |-> q]))
                                       /\ UNCHANGED responses
                                  ELSE Respond(200, TRUE, P0_local(q)) /\ UNCHANGED calls
                                ELSE /\ Respond(200, TRUE, responseText(<<"Desculpe, não entendi.">>, TRUE))
                                     /\ UNCHANGED calls
  /\ UNCHANGED <<config, reqBody, verification, verifierSaw, downstream, escaped>>

\* sendToMake, lines 29-35: fetch settles, then the status check
P0_sendToMake_fetch ==
  /\ rev = "p000" /\ pc = "fetch"
  /\ \/ /\ fetchOutcome' = "network error"
        /\ Respond(200, TRUE, P0_error)
        /\ UNCHANGED fetchStatus
     \/ \E st \in DownStatuses :
          /\ fetchOutcome' = "response"
          /\ fetchStatus' = st
          /\ IF ~Ok(st)
               THEN Respond(200, TRUE, P0_error)
               ELSE pc' = "text" /\ UNCHANGED responses
  /\ UNCHANGED <<config, locals, received, reqBody, rawBody, verification, verifierSaw,
                 parseState, fetched, calls, escaped>>

\* what the handler writes for sendToMake's result (lines 128-137)
P0_answer(alexaJson) ==
  LET outputSpeech == Get(Get(alexaJson, "response"), "outputSpeech")
      text == Or(Get(outputSpeech, "text"),
                 Or(Get(outputSpeech, "ssml"),
                    Str(<<"Aqui está a resposta, mas não no formato esperado.">>)))
  IN IF Truthy(outputSpeech) THEN alexaJson ELSE responseText(String(text), FALSE)

\* r.json() settles (line 35), then lines 125-137
P0_sendToMake_json ==
  /\ rev = "p000" /\ pc = "text"
  /\ \/ /\ fetchOutcome' = "body error"
        /\ Respond(200, TRUE, P0_error)
        /\ UNCHANGED fetched
     \/ \E raw \in DownRaws :
          /\ fetched' = raw
          /\ UNCHANGED fetchOutcome
          /\ IF ParseThrows(raw)
               THEN Respond(200, TRUE, P0_error)
               ELSE Respond(200, TRUE, P0_answer(JSONparse(raw)))
  /\ UNCHANGED <<config, locals, received, reqBody, rawBody, verification, verifierSaw,
                 parseState, fetchStatus, calls, escaped>>

\* ================= src/unnamed/part_001 =================
P1_MAKE_WEBHOOK_URL == envUrl
P1_VERIFY == ToLowerCase(String(Or(envVerify, Str(<<>>)))) = <<"true">>

P1_envelope(text, end) ==
  Obj([version |-> Str(<<"1.0">>),
       response |-> Obj([shouldEndSession |-> Bool(end),
                         outputSpeech |-> Obj([type |-> Str(<<"PlainText">>), text |-> Str(text)])])])

\* the outer catch's response (lines 92-101)
P1_invalid == P1_envelope(<<"Requisição inválida.">>, TRUE)

\* getRawBody's stream branch (lines 111-116): rejects on the stream's error event
P1_getRawBodyRejects(st) == OverLimit(st.chunks, 0, -1) \/ st.fin = "error"

\* getRawBody, lines 106-117: the body the handler works with
P1_getRawBody(body, raw) ==
  IF Truthy(body) /\ body.t = "object" THEN JSONstringify(body) ELSE raw

\* handler, lines 8-11
P1_handler ==
  /\ rev = "p001" /\ pc = "start"
  /\ IF method # "POST"
       THEN Respond(405, FALSE, Str(<<"Method Not Allowed">>))
       ELSE pc' = "body" /\ UNCHANGED responses
  /\ UNCHANGED <<config, locals, received, reqBody, rawBody, verification, verifierSaw,
                 parseState, downstream, calls, escaped>>

\* getRawBody settles: req.body when the runtime parsed the body into an object,
\* the stream otherwise
P1_readBody ==
  /\ rev = "p001" /\ pc = "body"
  /\ \E st \in Streams, raw \in InboundRaws, runtimeParsed \in BOOLEAN :
       LET body == IF runtimeParsed /\ ~ParseThrows(raw) /\ JSONparse(raw).t = "object"
                     THEN JSONparse(raw) ELSE Undef
       IN IF ~(Truthy(body) /\ body.t = "object") /\ P1_getRawBodyRejects(st)
            THEN /\ Respond(400, TRUE, P1_invalid)
                 /\ UNCHANGED <<received, rawBody, reqBody>>
            ELSE /\ received' = raw
                 /\ reqBody' = body
                 /\ rawBody' = P1_getRawBody(body, raw)
                 /\ pc' = "verify"
                 /\ UNCHANGED responses
  /\ UNCHANGED <<config, locals, verification, verifierSaw, parseState, downstream, calls,
                 escaped>>

\* lines 14-24, with verifyAlexaRequest (lines 119-130)
P1_verifyAlexaRequest ==
  /\ rev = "p001" /\ pc = "verify"
  /\ IF ~P1_VERIFY
       THEN /\ verification' = "skipped"
            /\ pc' = "route"
            /\ UNCHANGED <<responses, verifierSaw>>
       ELSE IF ~Truthy(headers.signaturecertchainurl) \/ ~Truthy(headers.signature)
         THEN /\ verification' = "missing"
              /\ Respond(400, FALSE, Str(<<"missing certificate url/signature">>))
              /\ UNCHANGED verifierSaw
         ELSE \E out \in VerifierOutcomes(headers.signaturecertchainurl, headers.signature) :
                /\ verifierSaw' = Saw(rawBody)
                /\ verification' = out
                /\ IF out = "accepted"
                     THEN pc' = "route" /\ UNCHANGED responses
                     ELSE Respond(400, TRUE, P1_invalid)
  /\ UNCHANGED <<config, locals, received, reqBody, rawBody, parseState, downstream,
                 calls, escaped>>

\* handler, lines 26-91, up to the fetch
P1_route ==
  /\ rev = "p001" /\ pc = "route"
  /\ received' = NoRaw
  /\ rawBody' = NoRaw
  /\ reqBody' = Undef
  /\ LET alexaReq == IF ParseThrows(rawBody) THEN Or(reqBody, Obj(<<>>)) ELSE JSONparse(rawBody)
         request == Get(alexaReq, "request")
         t == Get(request, "type")
         i == Get(Get(request, "intent"), "name")
         q == Or(Get(Get(Get(Get(request, "intent"), "slots"), "query"), "value"), Str(<<>>))
     IN /\ parseState' = IF ParseThrows(rawBody) THEN "failed" ELSE "ok"
        /\ type' = t
        /\ intent' = i
        /\ query' = q
        /\ IF t = Str(<<"LaunchRequest">>)
             THEN Respond(200, TRUE, welcome) /\ UNCHANGED calls
             ELSE IF t = Str(<<"IntentRequest">>) /\ i = Str(<<"AskPerplexityIntent">>)
               THEN IF ~Truthy(P1_MAKE_WEBHOOK_URL)
                 THEN /\ Respond(500, TRUE, P1_envelope(<<"Erro de configuração do serviço.">>, TRUE))
                      /\ UNCHANGED calls
                 ELSE /\ Fetch(P1_MAKE_WEBHOOK_URL, Obj([query |-> q]))
                      /\ UNCHANGED responses
               ELSE /\ Respond(200, TRUE, P1_envelope(<<"Desculpe, não entendi.">>, TRUE))
                    /\ UNCHANGED calls
  /\ UNCHANGED <<config, verification, verifierSaw, downstream, escaped>>

\* line 73: fetch settles; a rejection lands in the outer catch
P1_fetch ==
  /\ rev = "p001" /\ pc = "fetch"
  /\ \/ /\ fetchOutcome' = "network error"
        /\ Respond(400, TRUE, P1_invalid)
        /\ UNCHANGED fetchStatus
     \/ \E st \in DownStatuses :
          /\ fetchOutcome' = "response"
          /\ fetchStatus' = st
          /\ pc' = "text"
          /\ UNCHANGED responses
  /\ UNCHANGED <<config, locals, received, reqBody, rawBody, verification, verifierSaw,
                 parseState, fetched, calls, escaped>>

\* lines 80-81: r.json() settles and its value is written as it is
P1_json ==
  /\ rev = "p001" /\ pc = "text"
  /\ \/ /\ fetchOutcome' = "body error"
        /\ Respond(400, TRUE, P1_invalid)
        /\ UNCHANGED fetched
     \/ \E raw \in DownRaws :
          /\ fetched' = raw
          /\ UNCHANGED fetchOutcome
          /\ IF ParseThrows(raw)
               THEN Respond(400, TRUE, P1_invalid)
               ELSE Respond(200, TRUE, JSONparse(raw))
  /\ UNCHANGED <<config, locals, received, reqBody, rawBody, verification, verifierSaw,
                 parseState, fetchStatus, calls, escaped>>

\* ================= src/unnamed/part_003 =================
P3_MAKE_WEBHOOK_URL == Or(envUrl, Str(<<>>))
P3_VERIFY == ToLowerCase(String(Or(envVerify, Str(<<"true">>)))) = <<"true">>

alexaResponseSSML(ssml, end) ==
  Obj([version |-> Str(<<"1.0">>),
       response |-> Obj([shouldEndSession |-> Bool(end),
                         outputSpeech |-> Obj([type |-> Str(<<"SSML">>), ssml |-> Str(ssml)])])])

\* the catch blocks' response (lines 129-134 and 169-173)
P3_error == alexaResponseSSML(Speak(<<"Desculpe, houve um erro ao processar.">>), TRUE)
\* lines 55-57 and 69-71
P3_unverified == alexaResponseSSML(Speak(<<"Não foi possível validar a requisição.">>), TRUE)

\* getRawBody (no size limit): rejects on the stream's error event
P3_getRawBodyRejects(st) == OverLimit(st.chunks, 0, -1) \/ st.fin = "error"

\* handler, lines 31-45
P3_handler ==
  /\ rev = "p003" /\ pc = "start"
  /\ IF method # "POST"
       THEN Respond(405, FALSE, Str(<<"Method Not Allowed">>))
       ELSE pc' = "body" /\ UNCHANGED responses
  /\ UNCHANGED <<config, locals, received, reqBody, rawBody, verification, verifierSaw,
                 parseState, downstream, calls, escaped>>

\* getRawBody settles; a rejection lands in the outer catch (lines 169-173)
P3_getRawBody ==
  /\ rev = "p003" /\ pc = "body"
  /\ \E st \in Streams, raw \in InboundRaws :
       IF P3_getRawBodyRejects(st)
         THEN /\ Respond(200, TRUE, P3_error)
              /\ UNCHANGED <<received, rawBody>>
         ELSE /\ received' = raw
              /\ rawBody' = raw
              /\ pc' = "verify"
              /\ UNCHANGED responses
  /\ UNCHANGED <<config, locals, reqBody, verification, verifierSaw, parseState,
                 downstream, calls, escaped>>

\* lines 46-73
P3_verify ==
  /\ rev = "p003" /\ pc = "verify"
  /\ IF ~P3_VERIFY
       THEN /\ verification' = "skipped"
            /\ pc' = "route"
            /\ UNCHANGED <<responses, verifierSaw>>
       ELSE IF ~Truthy(headers.signature) \/ ~Truthy(headers.signaturecertchainurl)
         THEN /\ verification' = "missing"
              /\ Respond(401, TRUE, P3_unverified)
              /\ UNCHANGED verifierSaw
         ELSE \E out \in VerifierOutcomes(headers.signaturecertchainurl, headers.signature) :
                /\ verifierSaw' = Saw(rawBody)
                /\ verification' = out
                /\ IF out = "accepted"
                     THEN pc' = "route" /\ UNCHANGED responses
                     ELSE Respond(401, TRUE, P3_unverified)
  /\ UNCHANGED <<config, locals, received, reqBody, rawBody, parseState, downstream,
                 calls, escaped>>

\* handler, lines 76-116 and 165-168: parse, routing, up to the fetch
P3_route ==
  /\ rev = "p003" /\ pc = "route"
  /\ received' = NoRaw
  /\ rawBody' = NoRaw
  /\ LET alexaReq == JSONparse(rawBody)
         request == Get(alexaReq, "request")
         t == Get(request, "type")
         i == Get(Get(request, "intent"), "name")
         slots == Or(Get(Get(request, "intent"), "slots"), Obj(<<>>))
         q == Or(Get(Get(slots, "query"), "value"),
                 Or(Get(Get(slots, "pergunta"), "value"),
                    Or(Get(Get(slots, "texto"), "value"), Str(<<>>))))
     IN IF ParseThrows(rawBody)
          THEN /\ parseState' = "failed"
               /\ Respond(200, TRUE, P3_error)
               /\ UNCHANGED <<locals, calls>>
          ELSE /\ parseState' = "ok"
               /\ IF Nullish(alexaReq)
                    THEN /\ Respond(200, TRUE, P3_error)
                         /\ UNCHANGED <<locals, calls>>
                    ELSE /\ type' = t
                         /\ intent' = i
                         /\ query' = q
                         /\ IF t = Str(<<"LaunchRequest">>)
                              THEN /\ Respond(200, TRUE, alexaResponseSSML(Speak(<<"Oi! O que você quer saber?">>), FALSE))
                                   /\ UNCHANGED calls
                              ELSE IF t = Str(<<"IntentRequest">>) /\ i = Str(<<"AskPerplexityIntent">>)
                                THEN IF ~Truthy(P3_MAKE_WEBHOOK_URL)
                                  THEN /\ Respond(500, TRUE, alexaResponseSSML(Speak(<<"Configuração ausente no servidor.">>), TRUE))
                                       /\ UNCHANGED calls
                                  ELSE /\ Fetch(P3_MAKE_WEBHOOK_URL, Obj([query |-> q]))
                                       /\ UNCHANGED responses
                                ELSE /\ Respond(200, TRUE, alexaResponseSSML(Speak(<<"Desculpe, não entendi.">>), TRUE))
                                     /\ UNCHANGED calls
  /\ UNCHANGED <<config, reqBody, verification, verifierSaw, downstream, escaped>>

\* lines 111-116 and 129-134: fetch settles
P3_fetch ==
  /\ rev = "p003" /\ pc = "fetch"
  /\ \/ /\ fetchOutcome' = "network error"
        /\ Respond(200, TRUE, P3_error)
        /\ UNCHANGED fetchStatus
     \/ \E st \in DownStatuses :
          /\ fetchOutcome' = "response"
          /\ fetchStatus' = st
          /\ pc' = "text"
          /\ UNCHANGED responses
  /\ UNCHANGED <<config, locals, received, reqBody, rawBody, verification, verifierSaw,
                 parseState, fetched, calls, escaped>>

\* lines 118-123: JSON.parse of the body, or {text}
P3_makeResp(raw) == IF ParseThrows(raw) THEN Obj([text |-> Str(raw.s)]) ELSE JSONparse(raw)

\* lines 136-162: what the handler writes for makeResp
P3_answer(makeResp) ==
  LET text == Or(Get(makeResp, "ssml"),
                 Or(Get(makeResp, "speech"),
                    Or(Get(makeResp, "answer"),
                       Or(Get(makeResp, "message"), Get(makeResp, "text")))))
      ssml == IF StartsWithSpeak(Trim(text.s)) THEN Trim(text.s) ELSE Speak(Trim(text.s))
  IN IF Truthy(makeResp) /\ Truthy(Get(makeResp, "version")) /\ Truthy(Get(makeResp, "response"))
       THEN makeResp
       ELSE IF ~Truthy(text) \/ text.t # "string" \/ ~Truthy(Str(Trim(text.s)))
         THEN alexaResponseSSML(Speak(<<"Desculpe, não encontrei a resposta.">>), TRUE)
         ELSE alexaResponseSSML(ssml, TRUE)

\* r.text() settles (line 118), then lines 119-162
P3_text ==
  /\ rev = "p003" /\ pc = "text"
  /\ \/ /\ fetchOutcome' = "body error"
        /\ Respond(200, TRUE, P3_error)
        /\ UNCHANGED fetched
     \/ \E raw \in DownRaws :
          /\ fetched' = raw
          /\ UNCHANGED fetchOutcome
          /\ Respond(200, TRUE, P3_answer(P3_makeResp(raw)))
  /\ UNCHANGED <<config, locals, received, reqBody, rawBody, verification, verifierSaw,
                 parseState, fetchStatus, calls, escaped>>

\* ================= src/unnamed/part_004 =================
P4_MAKE_WEBHOOK_URL == Or(envUrl, Str(<<>>))
P4_ALEXA_VERIFY == ToLowerCase(String(Or(envVerify, Str(<<"true">>)))) # <<"false">>

alexaResponse(text, end) ==
  Obj([version |-> Str(<<"1.0">>),
       response |-> Obj([shouldEndSession |-> Bool(end),
                         outputSpeech |-> Obj([type |-> Str(<<"SSML">>), ssml |-> Str(Speak(text))])])])

P4_unverified == alexaResponse(<<"Não foi possível validar a requisição.">>, TRUE)

\* readRawBody (no size limit): the for-await loop throws on the stream's error
P4_readRawBodyThrows(st) == OverLimit(st.chunks, 0, -1) \/ st.fin = "error"

\* handler, lines 41-46
P4_handler ==
  /\ rev = "p004" /\ pc = "start"
  /\ IF method # "POST"
       THEN Respond(405, FALSE, Str(<<"Method Not Allowed">>))
       ELSE pc' = "body" /\ UNCHANGED responses
  /\ UNCHANGED <<config, locals, received, reqBody, rawBody, verification, verifierSaw,
                 parseState, downstream, calls, escaped>>

\* readRawBody settles; the await is outside the try block (line 46)
P4_readRawBody ==
  /\ rev = "p004" /\ pc = "body"
  /\ \E st \in Streams, raw \in InboundRaws :
       IF P4_readRawBodyThrows(st)
         THEN /\ escaped' = TRUE
              /\ pc' = "done"
              /\ UNCHANGED <<received, rawBody>>
         ELSE /\ received' = raw
              /\ rawBody' = raw
              /\ pc' = "verify"
              /\ UNCHANGED escaped
  /\ UNCHANGED <<config, locals, reqBody, verification, verifierSaw, parseState,
                 downstream, calls, responses>>

\* lines 53-82, with verifyAlexaSignature
P4_verifyAlexaSignature ==
  /\ rev = "p004" /\ pc = "verify"
  /\ IF ~P4_ALEXA_VERIFY
       THEN /\ verification' = "skipped"
            /\ pc' = "route"
            /\ UNCHANGED <<responses, verifierSaw>>
       ELSE IF ~Truthy(headers.signature) \/ ~Truthy(headers.signaturecertchainurl)
         THEN /\ verification' = "missing"
              /\ Respond(400, TRUE, P4_unverified)
              /\ UNCHANGED verifierSaw
         ELSE \E out \in VerifierOutcomes(headers.signaturecertchainurl, headers.signature) :
                /\ verifierSaw' = Saw(rawBody)
                /\ verification' = out
                /\ IF out = "accepted"
                     THEN pc' = "route" /\ UNCHANGED responses
                     ELSE Respond(400, TRUE, P4_unverified)
  /\ UNCHANGED <<config, locals, received, reqBody, rawBody, parseState, downstream,
                 calls, escaped>>

\* handler, lines 85-144: parse, routing, up to the fetch
P4_route ==
  /\ rev = "p004" /\ pc = "route"
  /\ received' = NoRaw
  /\ rawBody' = NoRaw
  /\ LET alexaReq == JSONparse(rawBody)
         request == Get(alexaReq, "request")
         t == Get(request, "type")
         i == Get(Get(request, "intent"), "name")
         q == Or(Get(Get(Get(Get(request, "intent"), "slots"), "query"), "value"), Str(<<>>))
     IN IF ParseThrows(rawBody)
          THEN /\ parseState' = "failed"
               /\ Respond(400, TRUE, alexaResponse(<<"Requisição inválida.">>, TRUE))
               /\ UNCHANGED <<locals, calls>>
          ELSE /\ parseState' = "ok"
               /\ IF Nullish(alexaReq)
                    THEN /\ Respond(500, TRUE, alexaResponse(<<"Desculpe, houve um erro ao processar.">>, TRUE))
                         /\ UNCHANGED <<locals, calls>>
                    ELSE /\ type' = t
                         /\ intent' = i
                         /\ query' = q
                         /\ IF t = Str(<<"LaunchRequest">>)
                              THEN /\ Respond(200, TRUE, alexaResponse(<<"Oi! O que você quer saber?">>, FALSE))
                                   /\ UNCHANGED calls
                              ELSE IF t = Str(<<"IntentRequest">>) /\ i = Str(<<"AskPerplexityIntent">>)
                                THEN IF ~Truthy(P4_MAKE_WEBHOOK_URL)
                                  THEN /\ Respond(200, TRUE, alexaResponse(<<"Desculpe, estou sem conexão no momento.">>, TRUE))
                                       /\ UNCHANGED calls
                                  ELSE /\ Fetch(P4_MAKE_WEBHOOK_URL, Obj([query |-> q]))
                                       /\ UNCHANGED responses
                                ELSE /\ Respond(200, TRUE, alexaResponse(<<"Desculpe, não entendi.">>, TRUE))
                                     /\ UNCHANGED calls
  /\ UNCHANGED <<config, reqBody, verification, verifierSaw, downstream, escaped>>

\* lines 118-129 and 133-138: fetch settles, then the status check
P4_fetch ==
  /\ rev = "p004" /\ pc = "fetch"
  /\ \/ /\ fetchOutcome' = "network error"
        /\ Respond(200, TRUE, alexaResponse(<<"Desculpe, ocorreu um erro ao processar.">>, TRUE))
        /\ UNCHANGED fetchStatus
     \/ \E st \in DownStatuses :
          /\ fetchOutcome' = "response"
          /\ fetchStatus' = st
          /\ IF ~Ok(st)
               THEN Respond(200, TRUE, alexaResponse(<<"Desculpe, não encontrei a resposta.">>, TRUE))
               ELSE pc' = "text" /\ UNCHANGED responses
  /\ UNCHANGED <<config, locals, received, reqBody, rawBody, verification, verifierSaw,
                 parseState, fetched, calls, escaped>>

\* lines 131-138: r.json() settles and its value is written as it is
P4_json ==
  /\ rev = "p004" /\ pc = "text"
  /\ \/ /\ fetchOutcome' = "body error"
        /\ Respond(200, TRUE, alexaResponse(<<"Desculpe, ocorreu um erro ao processar.">>, TRUE))
        /\ UNCHANGED fetched
     \/ \E raw \in DownRaws :
          /\ fetched' = raw
          /\ UNCHANGED fetchOutcome
          /\ IF ParseThrows(raw)
               THEN Respond(200, TRUE, alexaResponse(<<"Desculpe, ocorreu um erro ao processar.">>, TRUE))
               ELSE Respond(200, TRUE, JSONparse(raw))
  /\ UNCHANGED <<config, locals, received, reqBody, rawBody, verification, verifierSaw,
                 parseState, fetchStatus, calls, escaped>>

\* ================= src/api_alexa.js =================
B_MAKE_WEBHOOK_URL == envUrl

B_envelope(text, end) ==
  Obj([version |-> Str(<<"1.0">>),
       response |-> Obj([shouldEndSession |-> Bool(end),
                         outputSpeech |-> Obj([type |-> Str(<<"PlainText">>), text |-> Str(text)])])])

\* the catch block's response (lines 62-71)
B_invalid == B_envelope(<<"Requisição inválida.">>, TRUE)

\* getRawBody (no size limit): rejects on the stream's error event
B_getRawBodyRejects(st) == OverLimit(st.chunks, 0, -1) \/ st.fin = "error"

\* handler, lines 6-9
B_handler ==
  /\ rev = "api_alexa" /\ pc = "start"
  /\ IF method # "POST"
       THEN Respond(405, FALSE, Str(<<"Method Not Allowed">>))
       ELSE pc' = "body" /\ UNCHANGED responses
  /\ UNCHANGED <<config, locals, received, reqBody, rawBody, verification, verifierSaw,
                 parseState, downstream, calls, escaped>>

\* getRawBody settles; the await is outside the try block (line 9)
B_getRawBody ==
  /\ rev = "api_alexa" /\ pc = "body"
  /\ \E st \in Streams, raw \in InboundRaws :
       IF B_getRawBodyRejects(st)
         THEN /\ escaped' = TRUE
              /\ pc' = "done"
              /\ UNCHANGED <<received, rawBody>>
         ELSE /\ received' = raw
              /\ rawBody' = raw
              /\ pc' = "verify"
              /\ UNCHANGED escaped
  /\ UNCHANGED <<config, locals, reqBody, verification, verifierSaw, parseState,
                 downstream, calls, responses>>

\* line 15: the verifier is always called, with whatever the headers hold
B_verify ==
  /\ rev = "api_alexa" /\ pc = "verify"
  /\ \E out \in VerifierOutcomes(headers.signaturecertchainurl, headers.signature) :
       /\ verifierSaw' = Saw(rawBody)
       /\ verification' = out
       /\ IF out = "accepted"
            THEN pc' = "route" /\ UNCHANGED responses
            ELSE Respond(400, TRUE, B_invalid)
  /\ UNCHANGED <<config, locals, received, reqBody, rawBody, parseState, downstream,
                 calls, escaped>>

\* handler, lines 18-61: parse, routing, up to the fetch
B_route ==
  /\ rev = "api_alexa" /\ pc = "route"
  /\ received' = NoRaw
  /\ rawBody' = NoRaw
  /\ LET alexaReq == JSONparse(rawBody)
         request == Get(alexaReq, "request")
         t == Get(request, "type")
         i == Get(Get(request, "intent"), "name")
         q == Or(Get(Get(Get(Get(request, "intent"), "slots"), "query"), "value"), Str(<<>>))
         payload == Obj([query |-> q,
                         userId |-> Get(Get(Get(alexaReq, "session"), "user"), "userId"),
                         locale |-> Get(request, "locale")])
     IN IF ParseThrows(rawBody)
          THEN /\ parseState' = "failed"
               /\ Respond(400, TRUE, B_invalid)
               /\ UNCHANGED <<locals, calls>>
          ELSE /\ parseState' = "ok"
               /\ IF Nullish(alexaReq)
                    THEN /\ Respond(400, TRUE, B_invalid)
                         /\ UNCHANGED <<locals, calls>>
                    ELSE /\ type' = t
                         /\ intent' = i
                         /\ query' = q
                         /\ IF t = Str(<<"LaunchRequest">>)
                              THEN Respond(200, TRUE, welcome) /\ UNCHANGED calls
                              ELSE IF t = Str(<<"IntentRequest">>) /\ i = Str(<<"AskPerplexityIntent">>)
                                THEN IF ~Truthy(B_MAKE_WEBHOOK_URL)
                                  THEN Respond(400, TRUE, B_invalid) /\ UNCHANGED calls
                                  ELSE /\ Fetch(B_MAKE_WEBHOOK_URL, payload)
                                       /\ UNCHANGED responses
                                ELSE /\ Respond(200, TRUE, B_envelope(<<"Desculpe, não entendi.">>, TRUE))
                                     /\ UNCHANGED calls
  /\ UNCHANGED <<config, reqBody, verification, verifierSaw, downstream, escaped>>

\* lines 43-47: fetch settles; a rejection lands in the catch block
B_fetch ==
  /\ rev = "api_alexa" /\ pc = "fetch"
  /\ \/ /\ fetchOutcome' = "network error"
        /\ Respond(400, TRUE, B_invalid)
        /\ UNCHANGED fetchStatus
     \/ \E st \in DownStatuses :
          /\ fetchOutcome' = "response"
          /\ fetchStatus' = st
          /\ pc' = "text"
          /\ UNCHANGED responses
  /\ UNCHANGED <<config, locals, received, reqBody, rawBody, verification, verifierSaw,
                 parseState, fetched, calls, escaped>>

\* lines 50-51: r.json() settles and its value is written as it is
B_json ==
  /\ rev = "api_alexa" /\ pc = "text"
  /\ \/ /\ fetchOutcome' = "body error"
        /\ Respond(400, TRUE, B_invalid)
        /\ UNCHANGED fetched
     \/ \E raw \in DownRaws :
          /\ fetched' = raw
          /\ UNCHANGED fetchOutcome
          /\ IF ParseThrows(raw)
               THEN Respond(400, TRUE, B_invalid)
               ELSE Respond(200, TRUE, JSONparse(raw))
  /\ UNCHANGED <<config, locals, received, reqBody, rawBody, verification, verifierSaw,
                 parseState, fetchStatus, calls, escaped>>

Next ==
  \/ A_handler
  \/ A_getRawBody
  \/ A_verifyAlexaRequest
  \/ A_route
  \/ A_askMake_fetch
  \/ A_askMake_text
  \/ A_askMake_stalled
  \/ P0_handler
  \/ P0_getRawBody
  \/ P0_verify
  \/ P0_route
  \/ P0_sendToMake_fetch
  \/ P0_sendToMake_json
  \/ P1_handler
  \/ P1_readBody
  \/ P1_verifyAlexaRequest
  \/ P1_route
  \/ P1_fetch
  \/ P1_json
  \/ P3_handler
  \/ P3_getRawBody
  \/ P3_verify
  \/ P3_route
  \/ P3_fetch
  \/ P3_text
  \/ P4_handler
  \/ P4_readRawBody
  \/ P4_verifyAlexaSignature
  \/ P4_route
  \/ P4_fetch
  \/ P4_json
  \/ B_handler
  \/ B_getRawBody
  \/ B_verify
  \/ B_route
  \/ B_fetch
  \/ B_json

Spec == Init /\ [][Next]_vars

\* the event loop runs every continuation that is ready: a step that can be taken is
\* taken; a downstream that never delivers is the step to "hung", after which nothing
\* is ready
FairSpec == Init /\ [][Next]_vars /\ WF_vars(Next)

\* ---------- what the claims speak of ----------
Done == pc = "done"
IsPOST == method = "POST"
HasBothHeaders == Truthy(headers.signature) /\ Truthy(headers.signaturecertchainurl)

\* the revision's verification toggle, as its configuration sets it
VerifyEnabled ==
  CASE rev = "alexa" -> A_ALEXA_VERIFY
    [] rev = "p000" -> P0_ALEXA_VERIFY
    [] rev = "p001" -> P1_VERIFY
    [] rev = "p003" -> P3_VERIFY
    [] rev = "p004" -> P4_ALEXA_VERIFY
    [] rev = "api_alexa" -> TRUE

Status4xx(st) == st \in 400..499

\* version "1.0" with response.outputSpeech and response.shouldEndSession
IsSpeechEnvelope(b) ==
  /\ Get(b, "version") = Str(<<"1.0">>)
  /\ Get(Get(b, "response"), "outputSpeech").t = "object"
  /\ Get(Get(b, "response"), "shouldEndSession").t = "boolean"

\* the Outbound Envelope of the data model
IsOutboundEnvelope(b) ==
  LET os == Get(Get(b, "response"), "outputSpeech")
  IN /\ IsSpeechEnvelope(b)
     /\ \/ Get(os, "type") = Str(<<"SSML">>) /\ Get(os, "ssml").t = "string"
        \/ Get(os, "type") = Str(<<"PlainText">>) /\ Get(os, "text").t = "string"

ShouldEndSession(b) == Get(Get(b, "response"), "shouldEndSession")

\* the words the envelope speaks, whichever the speech type
SpeechOf(b) ==
  LET os == Get(Get(b, "response"), "outputSpeech")
  IN IF Get(os, "type") = Str(<<"SSML">>) THEN String(Get(os, "ssml")) ELSE String(Get(os, "text"))

Says(b, sentence) == \E i \in 1..Len(SpeechOf(b)) : SpeechOf(b)[i] = sentence

IsAskPerplexity == type = Str(<<"IntentRequest">>) /\ intent = Str(<<"AskPerplexityIntent">>)

\* the handler is past its routing
Routed == pc \in {"fetch", "text", "hung", "done"}

\* ---------- C1 ----------
\* C1: in src/api/alexa.js every request ends with exactly one response written:
\* never more than one at any time, exactly one once the handler has returned,
\* and the handler's promise never rejects.
C1_ExactlyOneResponse ==
  rev = "alexa" =>
    /\ Len(responses) <= 1
    /\ Done => Len(responses) = 1
    /\ ~Done => responses = <<>>
    /\ ~escaped

\* a request whose downstream call was aborted got its one response
C1_Witness ==
  rev = "alexa" /\ Done /\ fetchOutcome = "abort" /\ Len(responses) = 1

\* ---------- C2 ----------
\* the verification step let the request through
C2_Passed == ~VerifyEnabled \/ (HasBothHeaders /\ verification = "accepted")

\* C2: in src/api/alexa.js, part_003 and part_004 a POST request whose body was read
\* reaches parsing if and only if verification is disabled or both headers are
\* present and the verifier accepted the raw body it was handed; no downstream call
\* is issued otherwise; with verification disabled the request reaches parsing
\* whatever its headers.
C2_VerificationGate ==
  (rev \in {"alexa", "p003", "p004"} /\ IsPOST) =>
    /\ parseState # "none" => C2_Passed
    /\ calls # <<>> => C2_Passed
    /\ verification = "accepted" => verifierSaw = "received"
    /\ verification = "skipped" <=> (~VerifyEnabled /\ verification # "pending")
    /\ (Routed /\ verification # "pending" /\ C2_Passed) => parseState # "none"

\* verification disabled, no signature header, and the request was parsed and forwarded
C2_Witness ==
  /\ rev = "p004" /\ ~VerifyEnabled /\ ~Truthy(headers.signature)
  /\ parseState = "ok" /\ Len(calls) = 1

\* ---------- C3 ----------
\* C3: in part_000 and part_001, when verification is enabled and a required header
\* is absent or the verifier rejects the request, the one response has a 4xx status
\* and a speech-response envelope as its body.
C3_VerificationFailureIs4xxSpeech ==
  (rev \in {"p000", "p001"} /\ Done /\ VerifyEnabled /\ verification \in {"missing", "rejected"}) =>
    /\ Len(responses) = 1
    /\ Status4xx(responses[1].status)
    /\ responses[1].json
    /\ IsSpeechEnvelope(responses[1].body)

\* ---------- C4 ----------
\* C4: with ALEXA_VERIFY unset, src/api/alexa.js, part_000, part_001 and part_004
\* verify: a POST request lacking a signature header is never parsed and never
\* forwarded.
C4_UnsetToggleVerifies ==
  (rev \in {"alexa", "p000", "p001", "p004"} /\ IsPOST /\ envVerify = Undef /\ ~HasBothHeaders) =>
    /\ parseState = "none"
    /\ calls = <<>>
    /\ verification # "skipped"

\* ---------- C5 ----------
\* C5: in src/api/alexa.js, part_003 and part_001 a POST request that passed or
\* skipped verification and whose body is not valid JSON gets one response: a
\* well-formed Outbound Envelope, status 4xx, shouldEndSession true; nothing escapes
\* the handler and no downstream call is issued.
C5_MalformedJsonIs4xxEnvelope ==
  (rev \in {"alexa", "p003", "p001"} /\ parseState = "failed") =>
    /\ calls = <<>>
    /\ ~escaped
    /\ Done => /\ Len(responses) = 1
               /\ Status4xx(responses[1].status)
               /\ responses[1].json
               /\ IsOutboundEnvelope(responses[1].body)
               /\ ShouldEndSession(responses[1].body) = Bool(TRUE)

\* ---------- C6 ----------
\* C6: in src/api/alexa.js and part_003, an IntentRequest for AskPerplexityIntent
\* whose extracted query is empty once trimmed gets a re-prompt envelope with
\* shouldEndSession false, and no downstream call is issued.
C6_EmptyQueryReprompts ==
  (rev \in {"alexa", "p003"} /\ Routed /\ IsAskPerplexity /\ Trim(String(query)) = <<>>) =>
    /\ calls = <<>>
    /\ Done
    /\ Len(responses) = 1
    /\ IsOutboundEnvelope(responses[1].body)
    /\ ShouldEndSession(responses[1].body) = Bool(FALSE)

\* ---------- C7 ----------
\* C7: in src/api/alexa.js with the downstream URL configured, an IntentRequest for
\* AskPerplexityIntent with a non-empty query causes exactly one POST to the
\* configured URL whose JSON body carries the trimmed query; there is never a second
\* call, whatever the first one's outcome; every other request causes none.
C7_ExactlyOneCall ==
  (rev = "alexa" /\ Truthy(envUrl)) =>
    /\ Len(calls) <= 1
    /\ (Routed /\ IsAskPerplexity /\ Truthy(query)) =>
         /\ Len(calls) = 1
         /\ calls[1].url = envUrl
         /\ calls[1].method = "POST"
         /\ ~ParseThrows(calls[1].body)
         /\ Get(JSONparse(calls[1].body), "query") = Str(Trim(String(query)))
    /\ ~(IsAskPerplexity /\ Truthy(query)) => calls = <<>>

\* a query with a leading blank was forwarded once, the call failed, nothing was retried
C7_Witness ==
  /\ rev = "alexa" /\ Done /\ query = Str(<<" ", "hi">>)
  /\ fetchOutcome = "network error" /\ Len(calls) = 1

\* ---------- C8 ----------
\* the downstream call answered with an ok status and its body was read
DownstreamSucceeded == fetchOutcome = "response" /\ Ok(fetchStatus) /\ fetched # NoRaw

\* C8: in src/api/alexa.js, part_003 and part_000, when the downstream call succeeds
\* and its JSON body has a version and a response object (whatever response holds),
\* the response is status 200 with that very object as its body.
C8_EnvelopePassedThrough ==
  (/\ rev \in {"alexa", "p003", "p000"} /\ Done /\ DownstreamSucceeded
   /\ ~ParseThrows(fetched)
   /\ Truthy(Get(JSONparse(fetched), "version"))
   /\ Get(JSONparse(fetched), "response").t = "object") =>
    responses = <<[status |-> 200, json |-> TRUE, body |-> JSONparse(fetched)]>>

\* ---------- C9 ----------
CandidateFields == <<"ssml", "speech", "answer", "message", "text">>

\* the downstream body as data: the parsed JSON, or the plain text as the text field
C9_Data == IF ParseThrows(fetched) THEN Obj([text |-> Str(fetched.s)]) ELSE JSONparse(fetched)

\* the candidate fields that are present: holding a value that is not empty
C9_Present == {i \in 1..Len(CandidateFields) : Truthy(Get(C9_Data, CandidateFields[i]))}

\* the first present candidate field's value
C9_First ==
  Get(C9_Data, CandidateFields[CHOOSE i \in C9_Present : \A j \in C9_Present : i <= j])

C9_IsFullEnvelope == Truthy(Get(C9_Data, "version")) /\ Truthy(Get(C9_Data, "response"))

\* C9: in src/api/alexa.js and part_003, when the downstream call succeeds with a body
\* that is not a full envelope, the first present field among ssml, speech, answer,
\* message, text (plain text counting as text), when it is a string not empty once
\* trimmed, comes back wrapped in <speak>..</speak> in an SSML envelope with
\* shouldEndSession true; with no candidate field, or an empty one, the response is
\* the fixed "no answer found" one.
C9_AnswerNormalized ==
  (/\ rev \in {"alexa", "p003"} /\ Done /\ DownstreamSucceeded /\ ~C9_IsFullEnvelope
   /\ C9_Present # {} => C9_First.t = "string") =>
    /\ Len(responses) = 1
    /\ responses[1].status = 200
    /\ IF C9_Present # {} /\ Trim(C9_First.s) # <<>>
         THEN /\ IsOutboundEnvelope(responses[1].body)
              /\ Get(Get(Get(responses[1].body, "response"), "outputSpeech"), "type") = Str(<<"SSML">>)
              /\ SpeechOf(responses[1].body) =
                   (IF StartsWithSpeak(Trim(C9_First.s)) THEN Trim(C9_First.s)
                    ELSE Speak(Trim(C9_First.s)))
              /\ ShouldEndSession(responses[1].body) = Bool(TRUE)
         ELSE Says(responses[1].body, "Desculpe, não encontrei a resposta.")

\* ---------- C10 ----------
\* C10: in src/api/alexa.js, part_003 and src/api_alexa.js, when the downstream call
\* throws or is aborted the one response is the generic-error envelope ("houve um erro
\* ao processar") with shouldEndSession true, and nothing escapes the handler.
C10_DownstreamFailureIsGenericError ==
  (rev \in {"alexa", "p003", "api_alexa"} /\ Done /\ fetchOutcome \in {"network error", "abort"}) =>
    /\ ~escaped
    /\ Len(responses) = 1
    /\ IsOutboundEnvelope(responses[1].body)
    /\ Says(responses[1].body, "Desculpe, houve um erro ao processar.")
    /\ ShouldEndSession(responses[1].body) = Bool(TRUE)

\* ---------- C11 ----------
\* the request parsed to an object, so the handler's locals were set (lines 169-174)
C11_WellFormed == parseState = "ok" /\ query # Undef

\* the fixed "did not understand" sentence, in either of its wordings
DidNotUnderstand(b) ==
  Says(b, "Desculpe, não entendi. Pode repetir?") \/ Says(b, "Desculpe, não entendi.")

\* C11: in src/api/alexa.js every verified, well-formed request that is neither a
\* LaunchRequest nor an IntentRequest for AskPerplexityIntent (another intent, a
\* SessionEndedRequest, an unknown or a missing type) gets the fixed "did not
\* understand" response with shouldEndSession true, and causes no downstream call.
C11_OtherRequestsNotUnderstood ==
  (/\ rev = "alexa" /\ Done /\ verification = "accepted" /\ C11_WellFormed
   /\ type # Str(<<"LaunchRequest">>) /\ ~IsAskPerplexity) =>
    /\ calls = <<>>
    /\ Len(responses) = 1
    /\ IsOutboundEnvelope(responses[1].body)
    /\ DidNotUnderstand(responses[1].body)
    /\ ShouldEndSession(responses[1].body) = Bool(TRUE)

\* ---------- C12 ----------
\* C12: in src/api/alexa.js, part_001 and src/api_alexa.js, with no downstream URL
\* configured, an IntentRequest for AskPerplexityIntent with a non-empty query causes
\* no outbound call, nothing escapes the handler, and the one response is a speech
\* envelope that is not the invalid-request response used for malformed input.
C12_MissingUrlIsConfigurationError ==
  (/\ rev \in {"alexa", "p001", "api_alexa"} /\ ~Truthy(envUrl) /\ Done
   /\ parseState = "ok" /\ IsAskPerplexity /\ Truthy(query)) =>
    /\ calls = <<>>
    /\ ~escaped
    /\ Len(responses) = 1
    /\ IsSpeechEnvelope(responses[1].body)
    /\ ~Says(responses[1].body, "Requisição inválida.")

\* ---------- C13 ----------
\* C13: in src/api/alexa.js, part_004 and part_001, whatever the downstream answers,
\* every body written for a POST request is a well-formed Outbound Envelope: version
\* "1.0", a boolean shouldEndSession, and an outputSpeech of type SSML or PlainText
\* with the matching string.
C13_AlwaysOutboundEnvelope ==
  (rev \in {"alexa", "p004", "p001"} /\ IsPOST) =>
    \A i \in 1..Len(responses) :
      /\ responses[i].json
      /\ IsOutboundEnvelope(responses[i].body)

\* ---------- C14 ----------
\* C14: in src/api/alexa.js and part_003 a request whose method is not POST is
\* answered 405 and nothing else happens: the handler never gets to reading the
\* body, the verifier is never invoked, nothing is parsed and no downstream call is
\* issued.
C14_NonPostOnly405 ==
  (rev \in {"alexa", "p003"} /\ ~IsPOST) =>
    /\ pc \in {"start", "done"}
    /\ received = NoRaw /\ rawBody = NoRaw /\ reqBody = Undef
    /\ verification = "pending" /\ verifierSaw = "nothing"
    /\ parseState = "none"
    /\ calls = <<>> /\ fetchOutcome = "none"
    /\ ~escaped
    /\ ~Done => responses = <<>>
    /\ Done => responses = <<[status |-> 405, json |-> FALSE, body |-> Str(<<"Method Not Allowed">>)]>>

\* a GET with both signature headers was answered 405 with the headers never looked at
C14_Witness ==
  /\ rev = "alexa" /\ method = "GET" /\ HasBothHeaders /\ Done
  /\ Len(responses) = 1 /\ responses[1].status = 405
  /\ verification = "pending"

\* ---------- C15 ----------
\* C15: in src/api/alexa.js, once the downstream call is issued the handler always
\* eventually writes its response, whatever the downstream does: never answering, or
\* sending its headers and then stalling while the body is read.
C15_CallAlwaysAnswered ==
  (rev = "alexa" /\ pc = "fetch") ~> (Done /\ Len(responses) = 1)

\* ---------- C16 ----------
\* C16: in part_001, whenever verification is enabled, what the verifier is handed is
\* exactly the bytes received as the request body, also when the runtime had already
\* parsed the body into req.body.
C16_VerifierSeesReceivedBytes ==
  (rev = "p001" /\ VerifyEnabled /\ verifierSaw # "nothing") => verifierSaw = "received"

\* ---------- C17 ----------
\* a step of the handler failed: the body read, the verification, the parse, the
\* downstream call or the read of its body
C17_Fault ==
  \/ escaped
  \/ verification = "rejected"
  \/ parseState = "failed"
  \/ fetchOutcome \in {"network error", "body error"}

\* C17: in part_004 and src/api_alexa.js a fault at any step, a stream error while the
\* raw body is read included, ends in one well-formed speech response: nothing
\* propagates out of the handler, and the handler never returns with nothing written.
C17_EveryFaultAnswered ==
  (rev \in {"p004", "api_alexa"}) =>
    /\ ~escaped
    /\ Done => Len(responses) = 1
    /\ (Done /\ C17_Fault) => IsOutboundEnvelope(responses[1].body)
====
